---- MODULE Spec2Model ----
(***************************************************************************)
(* Model of aairtd.py: the per-station pipeline that localizes hourly      *)
(* observations, keeps daylight hours and ideal apparent temperatures,     *)
(* restricts to complete years and averages the number of ideal days per   *)
(* year, and the batch runner that applies it to every station file.       *)
(*                                                                         *)
(* Values.  A timestamp is <<year, month, day, hour>>; NaT is <<>>.        *)
(* A nullable number is <<v>>; NaN is <<>>.  Temperatures are in tenths of *)
(* a degree (63.5 is 635), precipitation in hundredths.  A quotient is the *)
(* reduced fraction <<numerator, denominator>>.  A station code is a       *)
(* sequence of characters.  A call that can raise returns                  *)
(* [raised, val].                                                          *)
(***************************************************************************)
EXTENDS Integers, Sequences, FiniteSets, TLC

VARIABLES
    pc,              \* position in average_annual_ideal_run_temp_days
    file,            \* the station file handed to the pipeline
    time_zone,       \* the time zone handed to the pipeline
    data,            \* local `data` of the pipeline
    data_daylight,   \* local `data_daylight`
    filtered_data,   \* local `filtered_data`
    complete_years,  \* local `complete_years`
    complete_data,   \* local `complete_data`
    result,          \* the pipeline's return value
    call,            \* the last direct call of one pipeline function
    dataset,         \* write_all_results_to_csv: the (file, time zone) items
    idx,             \* write_all_results_to_csv: items processed so far
    results,         \* write_all_results_to_csv: local `results`
    batch_pc,        \* write_all_results_to_csv: position
    output           \* the table written by results_df.to_csv

vars == <<pc, file, time_zone, data, data_daylight, filtered_data,
          complete_years, complete_data, result, call,
          dataset, idx, results, batch_pc, output>>

pipe_vars == <<pc, file, time_zone, data, data_daylight, filtered_data,
               complete_years, complete_data, result>>

batch_vars == <<dataset, idx, results, batch_pc, output>>

-----------------------------------------------------------------------------
(* Bounds of the model *)

\* most rows in a station file run through the pipeline
MaxRows == 4

\* most observations in a set handed to a directly called function
MaxObs == 3

\* most stations in a batch
MaxStations == 3

-----------------------------------------------------------------------------
(* Nullable values, comparisons that never match a null *)

NaT == <<>>

NaN == <<>>

Ge(a, k) == a # NaN /\ a[1] >= k

Le(a, k) == a # NaN /\ a[1] <= k

Lt(a, k) == a # NaN /\ a[1] < k

Eq(a, b) == a # NaN /\ b # NaN /\ a[1] = b[1]

Raised == [raised |-> TRUE, val |-> <<>>]

Ok(v) == [raised |-> FALSE, val |-> v]

\* boolean indexing data[mask]
Masked(rows, mask) ==
    LET F[i \in 0..Len(rows)] ==
            IF i = 0 THEN <<>>
            ELSE IF mask[i] THEN Append(F[i - 1], rows[i]) ELSE F[i - 1]
    IN  F[Len(rows)]

\* Series.unique(): the distinct values in order of first appearance
Unique(col) ==
    LET F[i \in 0..Len(col)] ==
            IF i = 0 THEN <<>>
            ELSE IF \E j \in 1..(i - 1) : col[j] = col[i] THEN F[i - 1]
                 ELSE Append(F[i - 1], col[i])
    IN  F[Len(col)]

Gcd(a, b) ==
    LET G[x \in 0..a, y \in 0..b] ==
            IF y = 0 THEN x
            ELSE IF x = 0 THEN y
            ELSE IF x >= y THEN G[x - y, y] ELSE G[x, y - x]
    IN  G[a, b]

\* a / b for b > 0, as a reduced fraction
Quotient(a, b) == LET g == Gcd(a, b) IN <<a \div g, b \div g>>

Zero == <<0, 1>>

-----------------------------------------------------------------------------
(* Calendar and time zones (the pandas/tz arithmetic behind .dt) *)

IsLeap(y) == (y % 4 = 0 /\ y % 100 # 0) \/ y % 400 = 0

DaysInMonth(y, m) ==
    IF m = 2 THEN (IF IsLeap(y) THEN 29 ELSE 28)
    ELSE IF m \in {4, 6, 9, 11} THEN 30 ELSE 31

PrevDay(t) ==
    IF t[3] > 1 THEN <<t[1], t[2], t[3] - 1, t[4]>>
    ELSE IF t[2] > 1 THEN <<t[1], t[2] - 1, DaysInMonth(t[1], t[2] - 1), t[4]>>
    ELSE <<t[1] - 1, 12, 31, t[4]>>

NextDay(t) ==
    IF t[3] < DaysInMonth(t[1], t[2]) THEN <<t[1], t[2], t[3] + 1, t[4]>>
    ELSE IF t[2] < 12 THEN <<t[1], t[2] + 1, 1, t[4]>>
    ELSE <<t[1] + 1, 1, 1, t[4]>>

\* zones without daylight saving time, so that the offset is one number
KnownZones == {"America/Phoenix", "Pacific/Honolulu", "Asia/Tokyo"}

utcoffset(tz) ==
    CASE tz = "America/Phoenix" -> 0 - 7
      [] tz = "Pacific/Honolulu" -> 0 - 10
      [] tz = "Asia/Tokyo" -> 9

\* one timestamp: tz_localize("UTC"), tz_convert(tz), tz_localize(None)
tz_convert(t, tz) ==
    IF t = NaT THEN NaT
    ELSE LET h == t[4] + utcoffset(tz) IN
         IF h < 0 THEN PrevDay(<<t[1], t[2], t[3], h + 24>>)
         ELSE IF h >= 24 THEN NextDay(<<t[1], t[2], t[3], h - 24>>)
         ELSE <<t[1], t[2], t[3], h>>

dt_year(t) == IF t = NaT THEN NaN ELSE <<t[1]>>

dt_month(t) == IF t = NaT THEN NaN ELSE <<t[2]>>

dt_hour(t) == IF t = NaT THEN NaN ELSE <<t[4]>>

dt_date(t) == IF t = NaT THEN NaT ELSE <<t[1], t[2], t[3]>>

\* pd.to_datetime(..., errors="coerce"): a field that is no date becomes NaT
to_datetime(s) ==
    IF /\ Len(s) = 4
       /\ s[2] \in 1..12
       /\ s[3] \in 1..DaysInMonth(s[1], s[2])
       /\ s[4] \in 0..23
    THEN s ELSE NaT

\* pd.to_numeric(..., errors="coerce"): a token that is no number becomes NaN
to_numeric(f) == IF f.tok = "num" THEN <<f.val>> ELSE NaN

-----------------------------------------------------------------------------
(* The pipeline's functions *)

DaylightStart == 6

DaylightEnd == 18

IdealLow == 500

IdealHigh == 635

NoPrecip == 0

\* load_data: columns 1 and 2 of the file; an empty file has no columns
load_data(f) ==
    IF f.kind = "zero_bytes" THEN Raised
    ELSE Ok([i \in 1..Len(f.rows) |->
                [valid |-> f.rows[i].valid, feel |-> f.rows[i].feel]])

preprocess_data(d) ==
    [i \in 1..Len(d) |->
        [valid |-> to_datetime(d[i].valid), feel |-> to_numeric(d[i].feel)]]

convert_to_timezone(d, tz) ==
    IF tz \notin KnownZones THEN Raised
    ELSE Ok([i \in 1..Len(d) |->
                [d[i] EXCEPT !.valid = tz_convert(d[i].valid, tz)]])

\* the window closed at its upper end
filter_daylight_hours_closed(d) ==
    Masked(d, [i \in 1..Len(d) |->
                  /\ Ge(dt_hour(d[i].valid), DaylightStart)
                  /\ Le(dt_hour(d[i].valid), DaylightEnd)])

filter_daylight_hours(d) ==
    Masked(d, [i \in 1..Len(d) |->
                  /\ Ge(dt_hour(d[i].valid), DaylightStart)
                  /\ Lt(dt_hour(d[i].valid), DaylightEnd)])

\* the range open at its upper end
filter_ideal_temps_open(d) ==
    Masked(d, [i \in 1..Len(d) |->
                  Ge(d[i].feel, IdealLow) /\ Lt(d[i].feel, IdealHigh)])

\* the first matching row taken for a header and skipped
filter_ideal_temps_skip(d) ==
    LET kept == Masked(d, [i \in 1..Len(d) |->
                              Ge(d[i].feel, IdealLow) /\ Le(d[i].feel, IdealHigh)])
    IN  IF kept = <<>> THEN kept ELSE Tail(kept)

filter_ideal_temps(d) ==
    Masked(d, [i \in 1..Len(d) |->
                  Ge(d[i].feel, IdealLow) /\ Le(d[i].feel, IdealHigh)])

\* the precipitation-aware variant
filter_ideal_conditions(d) ==
    Masked(d, [i \in 1..Len(d) |->
                  /\ Ge(d[i].feel, IdealLow)
                  /\ Le(d[i].feel, IdealHigh)
                  /\ Eq(d[i].p01m, <<NoPrecip>>)])

\* Series.min() and Series.max() of the months of some rows; NaN when empty
MonthMin(rows) ==
    LET ms == {dt_month(rows[i].valid)[1] :
                  i \in {j \in 1..Len(rows) : rows[j].valid # NaT}}
    IN  IF ms = {} THEN NaN ELSE <<CHOOSE m \in ms : \A n \in ms : m <= n>>

MonthMax(rows) ==
    LET ms == {dt_month(rows[i].valid)[1] :
                  i \in {j \in 1..Len(rows) : rows[j].valid # NaT}}
    IN  IF ms = {} THEN NaN ELSE <<CHOOSE m \in ms : \A n \in ms : m >= n>>

YearData(d, year) ==
    Masked(d, [i \in 1..Len(d) |-> Eq(dt_year(d[i].valid), year)])

IsCompleteYear(d, year) ==
    /\ Eq(MonthMin(YearData(d, year)), <<1>>)
    /\ Eq(MonthMax(YearData(d, year)), <<12>>)

\* January or December instead of January and December
get_complete_years_or(d) ==
    LET years == Unique([i \in 1..Len(d) |-> dt_year(d[i].valid)])
        sel == SelectSeq(years, LAMBDA year :
                   \/ Eq(MonthMin(YearData(d, year)), <<1>>)
                   \/ Eq(MonthMax(YearData(d, year)), <<12>>))
    IN  [i \in 1..Len(sel) |-> sel[i][1]]

get_complete_years(d) ==
    LET years == Unique([i \in 1..Len(d) |-> dt_year(d[i].valid)])
        sel == SelectSeq(years, LAMBDA year : IsCompleteYear(d, year))
    IN  [i \in 1..Len(sel) |-> sel[i][1]]

\* no restriction at all
filter_complete_years_all(d, cy) == d

filter_complete_years(d, cy) ==
    Masked(d, [i \in 1..Len(d) |->
                  /\ d[i].valid # NaT
                  /\ \E k \in 1..Len(cy) : cy[k] = d[i].valid[1]])

\* rows counted instead of dates
count_rows(d) == Len(d)

\* Series.nunique() of the dates: nulls are not counted
nunique_dates(d) ==
    Cardinality({dt_date(d[i].valid) :
                    i \in {j \in 1..Len(d) : d[j].valid # NaT}})

\* no guard on the number of years: n / 0 stands for the division error
calculate_unguarded(fd, cy) ==
    IF Len(cy) > 0 THEN Quotient(nunique_dates(fd), Len(cy))
    ELSE <<nunique_dates(fd), 0>>

\* the total instead of the average
calculate_total(fd, cy) ==
    IF Len(cy) > 0 THEN <<nunique_dates(fd), 1>> ELSE Zero

calculate_average_ideal_days_per_year(fd, cy) ==
    LET count_days == nunique_dates(fd)
        num_years == Len(cy)
    IN  IF num_years > 0 THEN Quotient(count_days, num_years) ELSE Zero

average_annual_ideal_run_temp_days(f, tz) ==
    LET loaded == load_data(f) IN
    IF loaded.raised THEN Raised
    ELSE LET conv == convert_to_timezone(preprocess_data(loaded.val), tz) IN
         IF conv.raised THEN Raised
         ELSE LET fd == filter_ideal_temps(filter_daylight_hours(conv.val))
                  cy == get_complete_years(fd)
              IN  Ok(calculate_average_ideal_days_per_year(
                         filter_complete_years(fd, cy), cy))

-----------------------------------------------------------------------------
(* call_sign and the batch runner *)

\* call_sign: the station code of the first row, in ICAO form
call_sign(f) ==
    IF f.kind = "zero_bytes" THEN Raised
    ELSE IF f.rows = <<>> THEN Ok(<<"U", "N", "K", "N", "O", "W", "N">>)
    ELSE LET icao_code == f.rows[1].station IN
         IF Len(icao_code) < 4 THEN Ok(<<"K">> \o icao_code)
         ELSE IF Len(icao_code) = 4 THEN Ok(icao_code)
         ELSE Ok(<<"K", "U", "N", "K", "N", "O", "W", "N">>)

\* one pass of the loop body of write_all_results_to_csv
station_row(item) ==
    LET icao_code == call_sign(item.file) IN
    IF icao_code.raised THEN Raised
    ELSE LET aairtd == average_annual_ideal_run_temp_days(item.file,
                                                         item.time_zone) IN
         IF aairtd.raised THEN Raised
         ELSE Ok([ICAO |-> icao_code.val, aairtd |-> aairtd.val])

-----------------------------------------------------------------------------
(* Inputs *)

Num(v) == [tok |-> "num", val |-> v]

Missing == [tok |-> "M", val |-> 0]

ORD == <<"O", "R", "D">>

Row(code, t, f) == [station |-> code, valid |-> t, feel |-> f]

\* rows of a station file, in the chronological order of the download (UTC)
SampleRows ==
    << Row(ORD, <<2010, 1, 1, 0>>, Num(550)),
       Row(ORD, <<2010, 1, 15, 20>>, Num(550)),
       Row(ORD, <<2010, 1, 15, 21>>, Num(600)),
       Row(ORD, <<2010, 1, 20, 20>>, Num(700)),
       Row(ORD, <<2010, 6, 10, 20>>, Num(550)),
       Row(ORD, <<2010, 12, 31, 23>>, Num(635)),
       Row(ORD, <<2011, 1, 5, 20>>, Num(500)),
       Row(ORD, <<2011, 2, 30, 20>>, Num(550)),
       Row(ORD, <<2011, 12, 5, 20>>, Num(500)),
       Row(ORD, <<2011, 12, 6, 20>>, Missing) >>

\* the rows of s at the positions in I, in order
Pick(s, I) ==
    LET F[i \in 0..Len(s)] ==
            IF i = 0 THEN <<>>
            ELSE IF i \in I THEN Append(F[i - 1], s[i]) ELSE F[i - 1]
    IN  F[Len(s)]

Csv(rows) == [kind |-> "csv", rows |-> rows]

ZeroBytes == [kind |-> "zero_bytes", rows |-> <<>>]

SampleFiles ==
    {ZeroBytes} \cup
    {Csv(Pick(SampleRows, I)) :
        I \in {J \in SUBSET DOMAIN SampleRows : Cardinality(J) <= MaxRows}}

Zones == KnownZones \cup {"Mars/Phobos"}

Ob(t, f) == [valid |-> t, feel |-> f]

\* observations in local time, for the directly called functions
Obs ==
    { Ob(NaT, <<550>>),
      Ob(<<2010, 1, 15, 6>>, <<500>>),
      Ob(<<2010, 1, 15, 17>>, <<635>>),
      Ob(<<2010, 6, 10, 12>>, NaN),
      Ob(<<2010, 12, 31, 18>>, <<636>>),
      Ob(<<2010, 12, 31, 5>>, <<499>>),
      Ob(<<2011, 3, 1, 12>>, <<550>>),
      Ob(<<2011, 10, 1, 12>>, <<550>>) }

ObP(t, f, p) == [valid |-> t, feel |-> f, p01m |-> p]

\* observations with a precipitation column
ObsPrecip ==
    { ObP(<<2010, 1, 15, 6>>, <<500>>, <<0>>),
      ObP(<<2010, 1, 15, 7>>, <<635>>, <<0>>),
      ObP(<<2010, 1, 15, 8>>, <<550>>, NaN),
      ObP(<<2010, 1, 15, 9>>, <<550>>, <<1>>),
      ObP(<<2010, 1, 15, 10>>, <<636>>, <<0>>),
      ObP(<<2010, 1, 15, 11>>, <<499>>, <<0>>),
      ObP(<<2010, 1, 15, 12>>, NaN, <<0>>) }

SeqsUpTo(S, n) == UNION {[1..k -> S] : k \in 0..n}

YearLists == {<<>>, <<2010>>, <<2011>>, <<2010, 2011>>}

Item(f, tz) == [file |-> f, time_zone |-> tz]

\* the (file, time zone) items a batch is made of
SampleItems ==
    { Item(Csv(Pick(SampleRows, {2, 6})), "America/Phoenix"),
      Item(Csv(Pick(SampleRows, {2, 3, 5})), "Mars/Phobos"),
      Item(Csv(<<>>), "America/Phoenix"),
      Item(ZeroBytes, "America/Phoenix"),
      Item(Csv(<<Row(<<"P", "H", "N", "L">>, <<2010, 6, 10, 20>>, Num(600))>>),
           "Pacific/Honolulu"),
      Item(Csv(<<Row(<<"K", "O", "R", "D", "X">>, <<2010, 6, 10, 20>>,
                     Num(600))>>), "America/Phoenix"),
      Item(Csv(<<Row(<<"4", "A">>, <<2010, 6, 10, 20>>, Num(600))>>),
           "America/Phoenix") }

-----------------------------------------------------------------------------
(* State machine *)

NoCall ==
    [fn |-> "none", arg |-> <<>>, years |-> <<>>, first |-> <<>>, ret |-> <<>>]

NoFile == Csv(<<>>)

Init ==
    /\ pc = "start"
    /\ file = NoFile
    /\ time_zone = ""
    /\ data = <<>>
    /\ data_daylight = <<>>
    /\ filtered_data = <<>>
    /\ complete_years = <<>>
    /\ complete_data = <<>>
    /\ result = Zero
    /\ call = NoCall
    /\ dataset = <<>>
    /\ idx = 0
    /\ results = <<>>
    /\ batch_pc = "start"
    /\ output = <<>>

Idle == pc = "start" /\ call = NoCall /\ batch_pc = "start"

(* average_annual_ideal_run_temp_days, one statement at a time *)

Load ==
    /\ Idle
    /\ \E f \in SampleFiles, tz \in Zones :
          /\ file' = f
          /\ time_zone' = tz
          /\ LET loaded == load_data(f) IN
             IF loaded.raised
             THEN pc' = "raised" /\ data' = data
             ELSE pc' = "loaded" /\ data' = loaded.val
    /\ UNCHANGED <<data_daylight, filtered_data, complete_years,
                   complete_data, result, call, batch_vars>>

Preprocess ==
    /\ pc = "loaded"
    /\ data' = preprocess_data(data)
    /\ pc' = "preprocessed"
    /\ UNCHANGED <<file, time_zone, data_daylight, filtered_data,
                   complete_years, complete_data, result, call, batch_vars>>

Convert ==
    /\ pc = "preprocessed"
    /\ LET conv == convert_to_timezone(data, time_zone) IN
       IF conv.raised
       THEN pc' = "raised" /\ data' = data
       ELSE pc' = "converted" /\ data' = conv.val
    /\ UNCHANGED <<file, time_zone, data_daylight, filtered_data,
                   complete_years, complete_data, result, call, batch_vars>>

Daylight ==
    /\ pc = "converted"
    /\ data_daylight' = filter_daylight_hours(data)
    /\ pc' = "daylight"
    /\ UNCHANGED <<file, time_zone, data, filtered_data, complete_years,
                   complete_data, result, call, batch_vars>>

IdealTemps ==
    /\ pc = "daylight"
    /\ filtered_data' = filter_ideal_temps(data_daylight)
    /\ pc' = "ideal"
    /\ UNCHANGED <<file, time_zone, data, data_daylight, complete_years,
                   complete_data, result, call, batch_vars>>

CompleteYears ==
    /\ pc = "ideal"
    /\ complete_years' = get_complete_years(filtered_data)
    /\ pc' = "years"
    /\ UNCHANGED <<file, time_zone, data, data_daylight, filtered_data,
                   complete_data, result, call, batch_vars>>

RestrictYears ==
    /\ pc = "years"
    /\ complete_data' = filter_complete_years(filtered_data, complete_years)
    /\ pc' = "restricted"
    /\ UNCHANGED <<file, time_zone, data, data_daylight, filtered_data,
                   complete_years, result, call, batch_vars>>

Average ==
    /\ pc = "restricted"
    /\ result' = calculate_average_ideal_days_per_year(complete_data,
                                                       complete_years)
    /\ pc' = "done"
    /\ UNCHANGED <<file, time_zone, data, data_daylight, filtered_data,
                   complete_years, complete_data, call, batch_vars>>

(* one pipeline function called on its own *)

Called(fn, arg, years, ret) ==
    /\ call' = [fn |-> fn, arg |-> arg, years |-> years,
                first |-> IF fn = "filter_ideal_temps again" THEN call.ret
                          ELSE <<>>,
                ret |-> ret]
    /\ UNCHANGED <<pipe_vars, batch_vars>>

CallDaylight ==
    /\ Idle
    /\ \E S \in SeqsUpTo(Obs, MaxObs) :
          Called("filter_daylight_hours", S, <<>>, filter_daylight_hours(S))

CallIdealTemps ==
    /\ Idle
    /\ \E S \in SeqsUpTo(Obs, MaxObs) :
          Called("filter_ideal_temps", S, <<>>, filter_ideal_temps(S))

\* the filter applied to its own output
CallIdealTempsAgain ==
    /\ call.fn = "filter_ideal_temps"
    /\ Called("filter_ideal_temps again", call.arg, <<>>,
              filter_ideal_temps(call.ret))

CallIdealConditions ==
    /\ Idle
    /\ \E S \in SeqsUpTo(ObsPrecip, MaxObs) :
          Called("filter_ideal_conditions", S, <<>>,
                 filter_ideal_conditions(S))

CallCompleteYears ==
    /\ Idle
    /\ \E S \in SeqsUpTo(Obs, MaxObs) :
          Called("get_complete_years", S, <<>>, get_complete_years(S))

CallAverage ==
    /\ Idle
    /\ \E S \in SeqsUpTo(Obs, MaxObs), cy \in YearLists :
          Called("calculate_average_ideal_days_per_year", S, cy,
                 calculate_average_ideal_days_per_year(S, cy))

Next ==
    \/ Load
    \/ Preprocess
    \/ Convert
    \/ Daylight
    \/ IdealTemps
    \/ CompleteYears
    \/ RestrictYears
    \/ Average
    \/ CallDaylight
    \/ CallIdealTemps
    \/ CallIdealTempsAgain
    \/ CallIdealConditions
    \/ CallCompleteYears
    \/ CallAverage

Spec == Init /\ [][Next]_vars

(* write_all_results_to_csv *)

BatchStart ==
    /\ Idle
    /\ \E ds \in SeqsUpTo(SampleItems, MaxStations) : dataset' = ds
    /\ batch_pc' = "loop"
    /\ UNCHANGED <<idx, results, output, pipe_vars, call>>

\* the loop body returns: its row is appended
ProcessStation ==
    /\ batch_pc = "loop"
    /\ idx < Len(dataset)
    /\ LET row == station_row(dataset[idx + 1]) IN
          /\ ~row.raised
          /\ results' = Append(results, row.val)
    /\ idx' = idx + 1
    /\ UNCHANGED <<dataset, batch_pc, output, pipe_vars, call>>

\* the loop body raises: nothing catches it, the function is left
StationRaises ==
    /\ batch_pc = "loop"
    /\ idx < Len(dataset)
    /\ station_row(dataset[idx + 1]).raised
    /\ batch_pc' = "aborted"
    /\ UNCHANGED <<dataset, idx, results, output, pipe_vars, call>>

WriteCsv ==
    /\ batch_pc = "loop"
    /\ idx = Len(dataset)
    /\ output' = results
    /\ batch_pc' = "done"
    /\ UNCHANGED <<dataset, idx, results, pipe_vars, call>>

BatchNext ==
    \/ BatchStart
    \/ ProcessStation
    \/ StationRaises
    \/ WriteCsv

BatchSpec == Init /\ [][BatchNext]_vars

-----------------------------------------------------------------------------
(* Properties *)

Stamped(S) == {i \in 1..Len(S) : S[i].valid # NaT}

DatesOf(S) ==
    {<<S[i].valid[1], S[i].valid[2], S[i].valid[3]>> : i \in Stamped(S)}

YearsOf(S) == {S[i].valid[1] : i \in Stamped(S)}

HasMonth(S, y, m) ==
    \E i \in Stamped(S) : S[i].valid[1] = y /\ S[i].valid[2] = m

DatesIn(S, y) == {dt \in DatesOf(S) : dt[1] = y}

Range(s) == {s[i] : i \in DOMAIN s}

\* R holds exactly the rows of S that Keep accepts, in the order of S
KeepsExactly(S, R, Keep(_)) ==
    R = Pick(S, {i \in 1..Len(S) : Keep(S[i])})

\* C1: a station's failure never aborts the batch: the run always finishes
\* and the table written has one row per station of the dataset.
C1_BatchNeverAborts ==
    /\ batch_pc # "aborted"
    /\ batch_pc = "done" => Len(output) = Len(dataset)

\* C2: get_complete_years returns exactly the years present in its input
\* that have an observation in January and one in December, each once,
\* whatever lies between; nothing for an empty input.
C2_CompleteYears ==
    call.fn = "get_complete_years" =>
        /\ Range(call.ret) =
               {y \in YearsOf(call.arg) :
                   HasMonth(call.arg, y, 1) /\ HasMonth(call.arg, y, 12)}
        /\ Len(call.ret) = Cardinality(Range(call.ret))
        /\ call.arg = <<>> => call.ret = <<>>

\* reached: a year with one January and one December row is returned while
\* a year with rows in March to October only is not
C2_Witness ==
    /\ call.fn = "get_complete_years"
    /\ call.ret = <<2010>>
    /\ 2011 \in YearsOf(call.arg)
    /\ \A m \in 2..11 : ~HasMonth(call.arg, 2010, m)
    /\ \A m \in {1, 2, 11, 12} : ~HasMonth(call.arg, 2011, m)

\* C3: for a non-empty list of complete years,
\* calculate_average_ideal_days_per_year returns the number of distinct
\* dates of its input divided by the number of years.
C3_DistinctDates ==
    (call.fn = "calculate_average_ideal_days_per_year" /\ call.years # <<>>) =>
        /\ call.ret[2] > 0
        /\ call.ret[1] * Len(call.years) =
               Cardinality(DatesOf(call.arg)) * call.ret[2]

\* reached: three rows on two dates, averaged over one year
C3_Witness ==
    /\ call.fn = "calculate_average_ideal_days_per_year"
    /\ Len(call.years) = 1
    /\ Cardinality(Stamped(call.arg)) = 3
    /\ Cardinality(DatesOf(call.arg)) = 2
    /\ call.ret = <<2, 1>>

NoSpanningYear(S) ==
    \A y \in YearsOf(S) : ~(HasMonth(S, y, 1) /\ HasMonth(S, y, 12))

\* C4: with no complete year the result is 0 and nothing is raised: for
\* calculate_average_ideal_days_per_year called with no years, and for the
\* pipeline on a file whose qualifying rows span no year from January to
\* December (no row at all included), where every row is left out of the
\* count; the pipeline raises only on an unreadable file or an unknown zone.
C4_ZeroYears ==
    /\ (call.fn = "calculate_average_ideal_days_per_year" /\ call.years = <<>>)
           => call.ret = Zero
    /\ (pc = "done" /\ NoSpanningYear(filtered_data))
           => complete_years = <<>> /\ complete_data = <<>> /\ result = Zero
    /\ pc = "raised"
           => file.kind = "zero_bytes" \/ time_zone \notin KnownZones

\* reached: one year with qualifying rows in January and June only
C4_Witness ==
    /\ pc = "done"
    /\ YearsOf(filtered_data) = {2010}
    /\ HasMonth(filtered_data, 2010, 1)
    /\ HasMonth(filtered_data, 2010, 6)
    /\ \A m \in 7..12 : ~HasMonth(filtered_data, 2010, m)
    /\ result = Zero

\* every year with an observation has one in January and one in December
CoversFullYears(S) ==
    /\ YearsOf(S) # {}
    /\ \A y \in YearsOf(S) : HasMonth(S, y, 1) /\ HasMonth(S, y, 12)

\* every observed year holds exactly d qualifying dates
HoldsPerYear(d) ==
    \A y \in YearsOf(data) : Cardinality(DatesIn(filtered_data, y)) = d

\* C5 as stated: observations covering full calendar years, d qualifying
\* dates in each, placed anywhere in the year: the pipeline returns d.
C5_AnyPlacement ==
    \A d \in 1..(MaxRows + 1) :
        (pc = "done" /\ CoversFullYears(data) /\ HoldsPerYear(d))
            => result = <<d, 1>>

\* C5 amended: the pipeline returns d when, in each year, the d qualifying
\* dates include one in January and one in December.
C5_JanuaryAndDecember ==
    \A d \in 1..(MaxRows + 1) :
        (/\ pc = "done"
         /\ CoversFullYears(data)
         /\ HoldsPerYear(d)
         /\ \A y \in YearsOf(data) :
                HasMonth(filtered_data, y, 1) /\ HasMonth(filtered_data, y, 12))
            => result = <<d, 1>>

\* reached: two full years with two qualifying dates each, average 2
C5_Witness ==
    /\ pc = "done"
    /\ CoversFullYears(data)
    /\ YearsOf(data) = {2010, 2011}
    /\ HoldsPerYear(2)
    /\ Len(complete_years) = 2
    /\ result = <<2, 1>>

InDaylight(r) == r.valid # NaT /\ r.valid[4] >= 6 /\ r.valid[4] < 18

DaylightKept(S, R) ==
    /\ KeepsExactly(S, R, InDaylight)
    /\ Range(R) \subseteq Range(S)
    /\ \A i \in 1..Len(R) : InDaylight(R[i])

\* C6: the output of filter_daylight_hours holds exactly the rows of its
\* input that have a timestamp with local hour h, 6 <= h < 18, in order;
\* rows with a null timestamp are left out.
C6_Daylight ==
    /\ call.fn = "filter_daylight_hours" => DaylightKept(call.arg, call.ret)
    /\ pc \in {"daylight", "ideal", "years", "restricted", "done"}
           => DaylightKept(data, data_daylight)

\* reached: hour 6 kept, hour 18 and a null timestamp dropped
C6_Witness ==
    /\ call.fn = "filter_daylight_hours"
    /\ \E i \in 1..Len(call.arg) : call.arg[i].valid = NaT
    /\ \E i \in Stamped(call.arg) : call.arg[i].valid[4] = 18
    /\ Len(call.ret) = 1
    /\ call.ret[1].valid[4] = 6

InIdealRange(r) == r.feel # NaN /\ r.feel[1] >= 500 /\ r.feel[1] <= 635

IdealAndDry(r) == InIdealRange(r) /\ r.p01m # NaN /\ r.p01m[1] = 0

\* C7: filter_ideal_temps keeps exactly the rows whose temperature t is not
\* null and has 50 <= t <= 63.5; filter_ideal_conditions keeps exactly those
\* of them whose precipitation is 0, so never one with a null precipitation.
C7_Conditions ==
    /\ call.fn = "filter_ideal_temps"
           => KeepsExactly(call.arg, call.ret, InIdealRange)
    /\ call.fn = "filter_ideal_conditions"
           => KeepsExactly(call.arg, call.ret, IdealAndDry)
    /\ pc \in {"ideal", "years", "restricted", "done"}
           => KeepsExactly(data_daylight, filtered_data, InIdealRange)

\* reached: 50 and 63.5 kept, a null temperature dropped
C7_Witness ==
    /\ call.fn = "filter_ideal_temps"
    /\ \E i \in 1..Len(call.arg) : call.arg[i].feel = NaN
    /\ Len(call.ret) = 2
    /\ call.ret[1].feel = <<500>>
    /\ call.ret[2].feel = <<635>>

\* C8: filter_ideal_temps applied to its own output returns that output.
C8_Idempotent ==
    call.fn = "filter_ideal_temps again" => call.ret = call.first

\* reached: a set with a null temperature, filtered twice
C8_Witness ==
    /\ call.fn = "filter_ideal_temps again"
    /\ \E i \in 1..Len(call.arg) : call.arg[i].feel = NaN
    /\ Len(call.first) = 2
    /\ call.ret = call.first

NetworkPrefixes == {"K", "P"}

\* C9: every station identifier in a result row has 4 characters, the first
\* of them the network prefix.
C9_FourCharacterCode ==
    \A i \in 1..Len(results) :
        /\ Len(results[i].ICAO) = 4
        /\ results[i].ICAO[1] \in NetworkPrefixes

\* C10: every complete year has a counted date in January and one in
\* December, every counted row lies in a complete year, so the dates
\* counted number between 2 and 366 per complete year and the result is 0
\* or lies in [2, 366].
C10_DatesPerYear ==
    pc = "done" =>
        LET n == Len(complete_years)
            count == Cardinality(DatesOf(complete_data))
        IN  /\ \A y \in Range(complete_years) :
                   /\ HasMonth(complete_data, y, 1)
                   /\ HasMonth(complete_data, y, 12)
            /\ \A i \in 1..Len(complete_data) :
                   /\ complete_data[i].valid # NaT
                   /\ complete_data[i].valid[1] \in Range(complete_years)
            /\ 2 * n <= count
            /\ count <= 366 * n
            /\ \/ result = Zero
               \/ 2 * result[2] <= result[1] /\ result[1] <= 366 * result[2]

\* reached: one complete year counted with its two dates, a row of another
\* year left out
C10_Witness ==
    /\ pc = "done"
    /\ Len(complete_years) = 1
    /\ Cardinality(DatesOf(complete_data)) = 2
    /\ Len(filtered_data) > Len(complete_data)
    /\ result = <<2, 1>>

====
